---- MODULE Spec2Model ----
(***************************************************************************)
(* generateResponse of services/geminiService.ts as a state machine: one   *)
(* call, from its arguments to the result its promise settles to.  The     *)
(* model follows src/unnamed/part_000; src/unnamed/part_001 is the same    *)
(* function with the same control flow and the same substrings in its      *)
(* messages.  Spec is that call; TimedSpec is the same call with the clock *)
(* of performance.now() running; PairSpec is two such calls in their       *)
(* streaming loops at once; RouterSpec is one call of the router           *)
(* (src/unnamed/part_002); TestSpec is one call of testApiChannel          *)
(* (src/services/apiTestService.ts).                                       *)
(*                                                                         *)
(* Text is modelled as sequences of symbols.                               *)
(*  - Transport bytes: "data:" (the five characters d,a,t,a,:), " " (one   *)
(*    white-space character), "LF" (the newline), "[DONE]", the JSON       *)
(*    symbols "{" "}" "{}" "null", the text characters below, and "h","t": *)
(*    the lead and the continuation byte of one two-byte UTF-8 character.  *)
(*    "event:" is any other line content.                                  *)
(*  - A JSON payload  {p p ..} {p ..} ..  stands for the object            *)
(*    {"candidates":[{"content":{"parts":[p,p,..]}}, ..]}, one {..} per    *)
(*    candidate, and "{}" for an object without candidates; a part p is a  *)
(*    text character ("a","b"; "w" is a white-space character; "U" the     *)
(*    decoded two-byte character; "?" is U+FFFD) standing for              *)
(*    {"text":"<p>"}, or "_" for a part without a text field.              *)
(*  - Error messages are sequences of tokens; String.includes(s) is        *)
(*    membership of the token s.  The Chinese text of the source is        *)
(*    written in pinyin: "API-miyao" is the substring 'API' + U+5BC6 U+94A5 *)
(*    (API key), "moxing" is U+6A21 U+578B (model), "wangluo" is U+7F51    *)
(*    U+7EDC (network).                                                    *)
(***************************************************************************)
EXTENDS Integers, Sequences, FiniteSets, TLC

\* ------------------------------------------------------------------ bounds
\* Number of lines of a streamed response body.
MaxLines == 2
\* Number of parts of the first candidate of a non-streaming response body.
MaxParts == 2

\* ------------------------------------------------------------ text helpers
RECURSIVE Flatten(_)
\* Array.prototype.join(''): the concatenation of a sequence of sequences.
Flatten(ss) == IF ss = <<>> THEN <<>> ELSE Head(ss) \o Flatten(Tail(ss))

IsSpace(c) == c = " "

RECURSIVE TrimStart(_)
TrimStart(s) ==
  IF s # <<>> /\ IsSpace(Head(s)) THEN TrimStart(Tail(s)) ELSE s

RECURSIVE TrimEnd(_)
TrimEnd(s) ==
  IF s # <<>> /\ IsSpace(s[Len(s)]) THEN TrimEnd(SubSeq(s, 1, Len(s) - 1)) ELSE s

\* String.prototype.trim on transport text.
Trim(s) == TrimEnd(TrimStart(s))

\* String.prototype.startsWith.
StartsWith(s, p) == Len(s) >= Len(p) /\ SubSeq(s, 1, Len(p)) = p

\* String.prototype.slice(n).
Slice(s, n) == SubSeq(s, n + 1, Len(s))

RECURSIVE SplitFrom(_, _, _)
SplitFrom(s, cur, acc) ==
  IF s = <<>> THEN Append(acc, cur)
  ELSE IF Head(s) = "LF" THEN SplitFrom(Tail(s), <<>>, Append(acc, cur))
  ELSE SplitFrom(Tail(s), Append(cur, Head(s)), acc)

\* chunk.split('\n'): k newlines give k+1 lines, the last possibly empty.
Split(s) == SplitFrom(s, <<>>, <<>>)

RECURSIVE Decode(_)
\* new TextDecoder().decode(value), without {stream: true}: a two-byte
\* character decodes only when both bytes are in the same chunk; a lone lead
\* or continuation byte decodes to U+FFFD.
Decode(bytes) ==
  IF bytes = <<>> THEN <<>>
  ELSE IF Head(bytes) = "h" /\ Len(bytes) >= 2 /\ bytes[2] = "t"
       THEN <<"U">> \o Decode(Tail(Tail(bytes)))
  ELSE IF Head(bytes) \in {"h", "t"} THEN <<"?">> \o Decode(Tail(bytes))
  ELSE <<Head(bytes)>> \o Decode(Tail(bytes))

\* A text character that String.prototype.trim removes.
IsBlankChar(c) == c = "w"

\* !fullText.trim(): the text is empty or white space only.
IsBlank(text) == \A i \in 1..Len(text) : IsBlankChar(text[i])

\* ------------------------------------------------------------------- JSON
TextChars == {"a", "b", "w", "U", "?"}
PartSyms == TextChars \cup {"_"}

NotJSON == [ok |-> FALSE, isNull |-> FALSE, candidates |-> <<>>]

RECURSIVE ParseCandidates(_, _, _, _)
\* The candidates of an object: s is what is left to read, open says whether
\* a candidate is being read, cur are its parts so far.
ParseCandidates(s, open, cur, acc) ==
  IF s = <<>>
  THEN IF open \/ acc = <<>> THEN NotJSON
       ELSE [ok |-> TRUE, isNull |-> FALSE, candidates |-> acc]
  ELSE IF open
    THEN IF Head(s) = "}" THEN ParseCandidates(Tail(s), FALSE, <<>>, Append(acc, cur))
         ELSE IF Head(s) \in PartSyms
              THEN ParseCandidates(Tail(s), TRUE, Append(cur, Head(s)), acc)
         ELSE NotJSON
    ELSE IF Head(s) = "{" THEN ParseCandidates(Tail(s), TRUE, <<>>, acc)
         ELSE NotJSON

\* JSON.parse: leading and trailing white space is allowed.
ParseJSON(str) ==
  LET s == Trim(str) IN
  IF s = <<"null">> THEN [ok |-> TRUE, isNull |-> TRUE, candidates |-> <<>>]
  ELSE IF s = <<"{}">> THEN [ok |-> TRUE, isNull |-> FALSE, candidates |-> <<>>]
  ELSE ParseCandidates(s, FALSE, <<>>, <<>>)

\* p.text of one part: undefined for a part without a text field, which
\* join('') renders as the empty string.
PartText(p) == IF p = "_" THEN <<>> ELSE <<p>>

\* As ExtractText over the parts of every candidate.
ExtractTextOfEveryCandidate(parsed) ==
  Flatten([c \in 1..Len(parsed.candidates) |->
             Flatten([i \in 1..Len(parsed.candidates[c]) |->
                        PartText(parsed.candidates[c][i])])])

\* parsed.candidates?.[0]?.content?.parts?.map(p => p.text).join('') || ''
ExtractText(parsed) ==
  IF parsed.candidates = <<>> THEN <<>>
  ELSE Flatten([i \in 1..Len(parsed.candidates[1]) |-> PartText(parsed.candidates[1][i])])

\* -------------------------------------------------------- the stream loop
\* 'data: ': the event prefix, six characters.
DataPrefix == <<"data:", " ">>

\* As Invocation with the fragment passed where the buffer belongs.
InvocationOfFragmentOnly(newChunk, text, isComplete) ==
  [newChunk |-> newChunk, fullText |-> newChunk, isComplete |-> isComplete]

\* One invocation of onStreamChunk(newChunk, fullText, isComplete).
Invocation(newChunk, text, isComplete) ==
  [newChunk |-> newChunk, fullText |-> text, isComplete |-> isComplete]

\* What the caller's callback does when invoked during one chunk.
CallbackBehaviours == {"returns", "throws"}

\* As Accumulate with = written for +=.
AccumulateOverwrites(text, frag) == frag

\* fullText += text
Accumulate(text, frag) == text \o frag

\* As InnerCatch without the try/catch around JSON.parse.
InnerCatchMissing == "throw"

\* catch (e) { console.warn(...) } inside the for loop: the exception is
\* logged and the loop goes on with the next line.
InnerCatch == "continue"

\* As OnText without the test of `if (text)`.
OnTextWithoutEmptyTest(frag, st, cb) ==
  [st EXCEPT !.fullText = Accumulate(@, frag),
             !.calls = Append(@, Invocation(frag, Accumulate(st.fullText, frag), FALSE)),
             !.stop = IF cb = "throws" THEN InnerCatch ELSE "continue"]

\* if (text) { fullText += text; onStreamChunk(text, fullText, false) }: an
\* exception of the callback is thrown inside the inner try.
OnText(frag, st, cb) ==
  IF frag = <<>> THEN st
  ELSE [st EXCEPT !.fullText = Accumulate(@, frag),
                  !.calls = Append(@, Invocation(frag, Accumulate(st.fullText, frag), FALSE)),
                  !.stop = IF cb = "throws" THEN InnerCatch ELSE "continue"]

\* try { const parsed = JSON.parse(jsonStr); const text = ...: JSON.parse
\* throws on what is no JSON, and reading .candidates of null throws.
OnPayload(parsed, st, cb) ==
  IF ~parsed.ok \/ parsed.isNull THEN [st EXCEPT !.stop = InnerCatch]
  ELSE OnText(ExtractText(parsed), st, cb)

\* const jsonStr = trimmed.slice(6); if (jsonStr === '[DONE]') {
\* onStreamChunk('', fullText, true); break; }
OnData(jsonStr, st, cb) ==
  IF jsonStr = <<"[DONE]">>
  THEN [st EXCEPT !.calls = Append(@, Invocation(<<>>, st.fullText, TRUE)),
                  !.sawDone = TRUE,
                  !.stop = IF cb = "throws" THEN "throw" ELSE "break"]
  ELSE OnPayload(ParseJSON(jsonStr), st, cb)

\* if (!trimmed.startsWith('data: ')) continue;
OnTrimmed(trimmed, st, cb) ==
  IF ~StartsWith(trimmed, DataPrefix) THEN st
  ELSE OnData(Slice(trimmed, Len(DataPrefix)), st, cb)

\* The body of the for loop for one line.  st is the loop's state: the buffer,
\* the invocations so far, whether the [DONE] branch ran, and how the body
\* ended: "continue" (next line), "break", or "throw" (an exception left it).
LineStep(line, st, cb) == OnTrimmed(Trim(line), st, cb)

RECURSIVE ProcessLines(_, _, _)
\* for (const line of lines) { ... }: a break or an exception ends it.
ProcessLines(lines, st, cb) ==
  IF lines = <<>> \/ st.stop # "continue" THEN st
  ELSE ProcessLines(Tail(lines), LineStep(Head(lines), st, cb), cb)

\* One iteration of the while loop on a chunk the transport delivered: the
\* break of the [DONE] branch leaves the for loop only.
ProcessChunk(value, text, invoked, cb) ==
  ProcessLines(Split(Decode(value)),
               [fullText |-> text, calls |-> invoked, sawDone |-> FALSE,
                stop |-> "continue"],
               cb)

\* ------------------------------------------------------- error messages
\* new Error(...) of the API key check.
KeyMissingMessage == <<"API-miyao", " weishezhi. qing peizhi nin de Gemini API miyao.">>

\* new Error(...) of the empty-response check.
EmptyResponseMessage == <<"AI xiangying weikong, qing jiancha ", "moxing", " peizhi huo chongshi.">>

\* String.prototype.includes on a message.
Includes(message, token) == \E i \in 1..Len(message) : message[i] = token

\* A thrown value: an Error with a message, or something that is no Error.
ErrorOf(message) == [thrown |-> TRUE, isError |-> TRUE, message |-> message]
NonError == [thrown |-> TRUE, isError |-> FALSE, message |-> <<>>]
\* Nothing was thrown.
NoThrow == [thrown |-> FALSE, isError |-> FALSE, message |-> <<>>]

\* The Error thrown for a response that is not OK.
HttpError(status, errorMessage, modelName) ==
  IF status = 401 THEN ErrorOf(<<"API-miyao", " wuxiao huo yiguoqi: ">> \o errorMessage)
  ELSE IF status = 429 THEN ErrorOf(<<"API diaoyong pinlv chaoxian: ">> \o errorMessage)
  ELSE IF status = 404 THEN ErrorOf(<<"moxing", " bucunzai huo wuquan fangwen: ">> \o modelName)
  ELSE ErrorOf(<<"Gemini API cuowu (", ToString(status), "): ">> \o errorMessage)

AuthTag == <<"API key not valid">>
RateLimitTag == <<"Rate limit exceeded">>
ModelNotFoundTag == <<"Model not found">>
NetworkTag == <<"Network error">>
UnknownTag == <<"Unknown Gemini error">>

Resolved(text, hasError, error) ==
  [settled |-> "resolved", text |-> text, hasError |-> hasError, error |-> error]

Pending == [settled |-> "pending", text |-> <<>>, hasError |-> FALSE, error |-> <<>>]

\* The catch block: the result returned for a thrown value.
Catch(thrown, modelName) ==
  LET m == thrown.message IN
  IF ~thrown.isError
  THEN Resolved(<<"yu Gemini tongxin shi fasheng weizhi cuowu.">>, TRUE, UnknownTag)
  ELSE IF Includes(m, "API-miyao") \/ Includes(m, "401") \/ Includes(m, "Unauthorized")
  THEN Resolved(<<"API miyao wuxiao huo yiguoqi. qing jiancha nin de Gemini API miyao peizhi.">>, TRUE, AuthTag)
  ELSE IF Includes(m, "429") \/ Includes(m, "Rate limit")
  THEN Resolved(<<"API diaoyong pinlv chaoxian, qing shaohou chongshi.">>, TRUE, RateLimitTag)
  ELSE IF Includes(m, "404") \/ Includes(m, "moxing")
  THEN Resolved(<<"moxing ">> \o modelName \o <<" bucunzai huo wuquan fangwen.">>,
                TRUE, ModelNotFoundTag)
  ELSE IF Includes(m, "wangluo") \/ Includes(m, "fetch")
  THEN Resolved(<<"wangluo lianjie cuowu, qing jiancha wangluo hou chongshi.">>, TRUE, NetworkTag)
  ELSE Resolved(<<"yu Gemini tongxin shi chucuo: ">> \o m, TRUE, m)

\* if (!fullText.trim()) throw new Error(...): what the check throws.
EmptyCheck(text) ==
  IF IsBlank(text) THEN ErrorOf(EmptyResponseMessage) ELSE NoThrow

\* As Settle with a catch block that reads error.message.includes without
\* the instanceof check: a thrown value that is no Error makes it throw.
SettleWithoutInstanceof(thrown, text, modelName) ==
  IF ~thrown.thrown THEN Resolved(text, FALSE, <<>>)
  ELSE IF ~thrown.isError
  THEN [settled |-> "rejected", text |-> <<>>, hasError |-> FALSE, error |-> <<>>]
  ELSE Catch(thrown, modelName)

\* The try/catch boundary of generateResponse: the value the call resolves
\* to when the try block ended with `thrown` (or returned, with fullText = text).
Settle(thrown, text, modelName) ==
  IF thrown.thrown THEN Catch(thrown, modelName) ELSE Resolved(text, FALSE, <<>>)

\* ----------------------------------------------------------------- inputs
\* apiKey?: undefined, '', ' ', or a key.
ApiKeys ==
  {[given |-> FALSE, value |-> <<>>], [given |-> TRUE, value |-> <<>>],
   [given |-> TRUE, value |-> <<" ">>], [given |-> TRUE, value |-> <<"k">>]}

ModelNames == {<<"gemini-pro">>, <<"model-", "401">>}

\* Values a rejected fetch or read, or a throwing callback, can throw.
ThrownValues ==
  {ErrorOf(<<"Failed to ", "fetch">>), ErrorOf(<<"boom">>), ErrorOf(<<>>), NonError}

\* Values a rejected reader.read() throws: the TypeError of a broken
\* connection, the AbortError of a cancelled request.
ReadFailures ==
  {ErrorOf(<<"network error">>), ErrorOf(<<"The user aborted a request.">>)}

ErrorStatuses == {401, 429, 404, 500}

\* response.statusText: the reason phrase, empty over HTTP/2.
StatusTexts(status) ==
  {<<>>,
   IF status = 401 THEN <<"Unauthorized">>
   ELSE IF status = 429 THEN <<"Too Many Requests">>
   ELSE IF status = 404 THEN <<"Not Found">>
   ELSE <<"Internal Server Error">>}

\* error.message of an error body.
ErrorBodyMessages ==
  {<<"Resource has been exhausted">>} \cup
  {<<"upstream said: ", k>> :
     k \in {"API-miyao", "401", "Unauthorized", "429", "Rate limit", "404", "moxing"}}

\* The body of a response that is not OK: no JSON, JSON null, an object
\* without error.message (message empty), or an object with one.
ErrorBodies ==
  {[kind |-> "unparsable", message |-> <<>>], [kind |-> "null", message |-> <<>>],
   [kind |-> "object", message |-> <<>>]} \cup
  {[kind |-> "object", message |-> m] : m \in ErrorBodyMessages}

\* The lines a streamed body is made of.
StreamLines ==
  {<<>>,
   <<"event:">>,
   <<" ", "data:", " ">>,
   <<"data:", " ", "[DONE]">>,
   <<"data:", " ", "{", "a">>,
   <<"data:", " ", "null">>,
   <<"data:", " ", "{", "a", "}">>,
   <<"data:", " ", "{", "w", "}">>,
   <<"data:", " ", "{", "_", "}", "{", "b", "}">>,
   <<"data:", " ", "{", "h", "t", "}">>}

RECURSIVE BodiesOf(_)
\* The bodies of exactly n lines, each ended by a newline.
BodiesOf(n) ==
  IF n = 0 THEN {<<>>}
  ELSE {l \o <<"LF">> \o rest : l \in StreamLines, rest \in BodiesOf(n - 1)}

StreamBodies == UNION {BodiesOf(n) : n \in 0..MaxLines}

RECURSIVE SeqsUpTo(_, _)
\* The sequences over S of length at most n.
SeqsUpTo(S, n) ==
  IF n = 0 THEN {<<>>}
  ELSE SeqsUpTo(S, n - 1) \cup {Append(q, x) : q \in SeqsUpTo(S, n - 1), x \in S}

\* The bodies of a non-streaming response: a first candidate of at most
\* MaxParts parts, alone or followed by a second candidate; and bodies with a
\* two-byte character, without candidates, with white space around, null, cut
\* short, no JSON at all, empty.
JsonBodies ==
  {<<"{">> \o parts \o <<"}">> \o more :
     parts \in SeqsUpTo({"a", "b", "w", "_"}, MaxParts),
     more \in {<<>>, <<"{", "b", "}">>}}
  \cup
  {<<"{", "h", "t", "}">>, <<"{}">>, <<" ", "{", "a", "}", " ">>, <<"null">>,
   <<"{", "a">>, <<"event:">>, <<>>}

\* ------------------------------------------------------------------ state
VARIABLES
  pc,         \* where the call is: idle, fetching, reading, parsing, done
  apiKey, streaming, modelName,   \* the arguments (streaming: onStreamChunk given)
  endpoint,   \* the endpoint of the request URL
  requests,   \* fetch calls made
  status,     \* response.status, 0 before a response
  body,       \* the response body as sent
  wire,       \* the bytes of the body the reader has not delivered yet
  reader,     \* none, locked, released
  fullText,   \* let fullText
  calls,      \* the invocations of onStreamChunk, in order
  doneSeen,   \* a 'data: [DONE]' line has been processed
  drained,    \* reader.read() returned done
  parses,     \* response.json() calls on an OK response
  caught,     \* the value that reached the catch block
  result      \* what the returned promise settled to

vars == <<pc, apiKey, streaming, modelName, endpoint, requests, status, body, wire,
          reader, fullText, calls, doneSeen, drained, parses, caught, result>>

Init ==
  /\ pc = "idle"
  /\ apiKey = [given |-> FALSE, value |-> <<>>]
  /\ streaming = FALSE
  /\ modelName = <<>>
  /\ endpoint = ""
  /\ requests = 0
  /\ status = 0
  /\ body = <<>>
  /\ wire = <<>>
  /\ reader = "none"
  /\ fullText = <<>>
  /\ calls = <<>>
  /\ doneSeen = FALSE
  /\ drained = FALSE
  /\ parses = 0
  /\ caught = NoThrow
  /\ result = Pending

\* The try block ends, by `thrown` or by its return, and the call settles.
Return(thrown, text, model) ==
  /\ pc' = "done"
  /\ caught' = thrown
  /\ result' = Settle(thrown, text, model)

\* As Call without the check of the API key.
CallWithoutKeyCheck ==
  /\ pc = "idle"
  /\ \E key \in ApiKeys, stream \in BOOLEAN, model \in ModelNames :
       /\ apiKey' = key
       /\ streaming' = stream
       /\ modelName' = model
       /\ pc' = "fetching"
       /\ endpoint' = IF stream THEN "streamGenerateContent" ELSE "generateContent"
       /\ requests' = requests + 1
       /\ UNCHANGED <<caught, result>>
  /\ UNCHANGED <<status, body, wire, reader, fullText, calls, doneSeen, drained, parses>>

\* generateResponse is called: the key check, then the request is sent.
Call ==
  /\ pc = "idle"
  /\ \E key \in ApiKeys, stream \in BOOLEAN, model \in ModelNames :
       /\ apiKey' = key
       /\ streaming' = stream
       /\ modelName' = model
       /\ IF ~key.given \/ Trim(key.value) = <<>>
          THEN /\ Return(ErrorOf(KeyMissingMessage), fullText, model)
               /\ UNCHANGED <<endpoint, requests>>
          ELSE /\ pc' = "fetching"
               /\ endpoint' = IF stream THEN "streamGenerateContent" ELSE "generateContent"
               /\ requests' = requests + 1
               /\ UNCHANGED <<caught, result>>
  /\ UNCHANGED <<status, body, wire, reader, fullText, calls, doneSeen, drained, parses>>

\* await fetch(...) rejects.
FetchRejects ==
  /\ pc = "fetching"
  /\ \E e \in ThrownValues : Return(e, fullText, modelName)
  /\ UNCHANGED <<apiKey, streaming, modelName, endpoint, requests, status, body, wire,
                 reader, fullText, calls, doneSeen, drained, parses>>

\* errorData.error?.message || response.statusText, or the TypeError of
\* reading .error of null.
NotOkError(st, data, statusText, model) ==
  IF data.kind = "null"
  THEN ErrorOf(<<"Cannot read properties of null (reading 'error')">>)
  ELSE HttpError(st, IF data.message # <<>> THEN data.message ELSE statusText, model)

\* The response is not OK.
RespondNotOk ==
  /\ pc = "fetching"
  /\ \E st \in ErrorStatuses, data \in ErrorBodies :
       \E statusText \in StatusTexts(st) :
         /\ status' = st
         /\ Return(NotOkError(st, data, statusText, modelName), fullText, modelName)
  /\ UNCHANGED <<apiKey, streaming, modelName, endpoint, requests, body, wire,
                 reader, fullText, calls, doneSeen, drained, parses>>

\* The response is OK, onStreamChunk was given and response.body is there:
\* response.body.getReader().
RespondOkStream ==
  /\ pc = "fetching"
  /\ streaming
  /\ \E b \in StreamBodies : body' = b /\ wire' = b
  /\ status' = 200
  /\ reader' = "locked"
  /\ pc' = "reading"
  /\ UNCHANGED <<apiKey, streaming, modelName, endpoint, requests, fullText, calls,
                 doneSeen, drained, parses, caught, result>>

\* The response is OK and goes to the non-streaming branch: no onStreamChunk,
\* or a response without a body.
RespondOkBody ==
  /\ pc = "fetching"
  /\ \E b \in JsonBodies : (streaming => b = <<>>) /\ body' = b
  /\ status' = 200
  /\ pc' = "parsing"
  /\ UNCHANGED <<apiKey, streaming, modelName, endpoint, requests, wire, reader,
                 fullText, calls, doneSeen, drained, parses, caught, result>>

\* await response.json() of the non-streaming branch, the text, the empty
\* check and the return.
ParseBody ==
  /\ pc = "parsing"
  /\ parses' = parses + 1
  /\ LET parsed == ParseJSON(Decode(body)) IN
       IF ~parsed.ok
       THEN /\ Return(ErrorOf(<<"Unexpected token in JSON">>), fullText, modelName)
            /\ UNCHANGED fullText
       ELSE IF parsed.isNull
       THEN /\ Return(ErrorOf(<<"Cannot read properties of null (reading 'candidates')">>),
                      fullText, modelName)
            /\ UNCHANGED fullText
       ELSE /\ fullText' = ExtractText(parsed)
            /\ Return(EmptyCheck(fullText'), fullText', modelName)
  /\ UNCHANGED <<apiKey, streaming, modelName, endpoint, requests, status, body, wire,
                 reader, calls, doneSeen, drained>>

\* await reader.read() delivers a chunk: one iteration of the while loop.  An
\* exception leaving the loop runs the finally block and reaches the catch.
ReadChunk ==
  /\ pc = "reading"
  /\ wire # <<>>
  /\ \E n \in 1..Len(wire), cb \in CallbackBehaviours :
       \E r \in {ProcessChunk(SubSeq(wire, 1, n), fullText, calls, cb)} :
         /\ wire' = Slice(wire, n)
         /\ fullText' = r.fullText
         /\ calls' = r.calls
         /\ doneSeen' = (doneSeen \/ r.sawDone)
         /\ IF r.stop = "throw"
            THEN /\ reader' = "released"
                 /\ \E e \in ThrownValues : Return(e, fullText', modelName)
            ELSE UNCHANGED <<reader, pc, caught, result>>
  /\ UNCHANGED <<apiKey, streaming, modelName, endpoint, requests, status, body,
                 drained, parses>>

\* As ReadDone without the finally block.
ReadDoneWithoutFinally ==
  /\ pc = "reading"
  /\ wire = <<>>
  /\ drained' = TRUE
  /\ Return(EmptyCheck(fullText), fullText, modelName)
  /\ UNCHANGED <<apiKey, streaming, modelName, endpoint, requests, status, body, wire,
                 reader, fullText, calls, doneSeen, parses>>

\* await reader.read() returns done: break, finally, the empty check, return.
ReadDone ==
  /\ pc = "reading"
  /\ wire = <<>>
  /\ drained' = TRUE
  /\ reader' = "released"
  /\ Return(EmptyCheck(fullText), fullText, modelName)
  /\ UNCHANGED <<apiKey, streaming, modelName, endpoint, requests, status, body, wire,
                 fullText, calls, doneSeen, parses>>

\* As ReadRejects with a rejected read taken for the end of the stream.
ReadRejectsAsEndOfStream ==
  /\ pc = "reading"
  /\ reader' = "released"
  /\ \E e \in ReadFailures :
       /\ pc' = "done"
       /\ caught' = e
       /\ result' = Settle(EmptyCheck(fullText), fullText, modelName)
  /\ UNCHANGED <<apiKey, streaming, modelName, endpoint, requests, status, body, wire,
                 fullText, calls, doneSeen, drained, parses>>

\* await reader.read() rejects: finally, then the catch block.
ReadRejects ==
  /\ pc = "reading"
  /\ reader' = "released"
  /\ \E e \in ReadFailures : Return(e, fullText, modelName)
  /\ UNCHANGED <<apiKey, streaming, modelName, endpoint, requests, status, body, wire,
                 fullText, calls, doneSeen, drained, parses>>

\* ------------------------------------------------- state outside the call
VARIABLES
  clock,      \* performance.now() and the durations measured from it
  router,     \* one call of the router's generateResponse
  test,       \* one call of testApiChannel
  pair        \* two streaming calls in flight at once

\* -------------------------------------------------------------- the router
\* An optional argument: not given (undefined), or given with a value (text as
\* a sequence, a boolean as the one-element sequence of its literal).
Undefined == [given |-> FALSE, value |-> <<>>]
Given(v) == [given |-> TRUE, value |-> v]

\* One character, or run of characters, in lower case.
LowerOf(c) ==
  CASE c = "GEM" -> "gem"
    [] c = "Gem" -> "gem"
    [] c = "INI" -> "ini"
    [] c = "GenerativeLanguage" -> "generativelanguage"
    [] c = ".GoogleAPIs.com" -> ".googleapis.com"
    [] OTHER -> c

\* String.prototype.toLowerCase
ToLowerCase(s) == [i \in 1..Len(s) |-> LowerOf(s[i])]

\* String.prototype.includes(needle): needle is a run of s.
IncludesText(s, needle) ==
  \E i \in 0..(Len(s) - Len(needle)) : SubSeq(s, i + 1, i + Len(needle)) = needle

\* 'generativelanguage.googleapis.com'
GeminiHost == <<"generativelanguage", ".googleapis.com">>
\* 'gemini'
GeminiWord == <<"gem", "ini">>

\* (customBaseUrl || ''): undefined and '' both give ''.
OrEmpty(arg) == IF arg.given THEN arg.value ELSE <<>>

\* As RouterTakesGemini without the test of the model name.
RouterTakesGeminiByHostOnly(customBaseUrl, model) ==
  IncludesText(ToLowerCase(OrEmpty(customBaseUrl)), GeminiHost)

\* base.includes('generativelanguage.googleapis.com') || model.includes('gemini')
RouterTakesGemini(customBaseUrl, model) ==
  \/ IncludesText(ToLowerCase(OrEmpty(customBaseUrl)), GeminiHost)
  \/ IncludesText(ToLowerCase(model), GeminiWord)

\* shouldUseReducedCapacity: boolean = false: the parameter's value is the
\* default when the argument is undefined; the other parameters are their
\* arguments.
Parameters(args) ==
  [args EXCEPT !.shouldUseReducedCapacity = IF @.given THEN @ ELSE Given(<<"false">>)]

\* customBaseUrl of the router's caller.
RouterBaseUrls ==
  {Undefined, Given(<<>>),
   Given(<<"https://", "generativelanguage", ".googleapis.com", "/v1beta">>),
   Given(<<"https://", "GenerativeLanguage", ".GoogleAPIs.com">>),
   Given(<<"https://", "generativelanguage", "-proxy", ".googleapis.com">>),
   Given(<<"https://", "api.openai.com", "/v1">>)}

\* modelName of the router's caller.
RouterModelNames ==
  {<<"gem", "ini", "-pro">>, <<"models/", "Gem", "INI">>, <<"GEM", "INI">>,
   <<"gem", "-", "ini">>, <<"ini", "gem">>, <<"gpt-4o">>, <<>>}

\* The eight arguments of a call of the router.
RouterArguments ==
  [prompt : {<<"hello">>},
   modelName : RouterModelNames,
   systemInstruction : {Undefined, Given(<<"be brief">>)},
   shouldUseReducedCapacity : {Undefined, Given(<<"false">>), Given(<<"true">>)},
   imagePart : {Undefined, Given(<<"image/png">>)},
   customBaseUrl : RouterBaseUrls,
   apiKey : {Undefined, Given(<<"k">>)},
   onStreamChunk : {Undefined, Given(<<"callback">>)}]

\* The router before a call: nothing given, nothing invoked.
RouterIdle ==
  router = [pc |-> "idle", args |-> <<>>, invoked |-> <<>>]

\* The router is about to be called with some arguments.
RouterInit ==
  \E args \in RouterArguments :
    router = [pc |-> "called", args |-> args, invoked |-> <<>>]

\* The body of the router's generateResponse: one of the two services is
\* invoked with the eight parameters.
Route ==
  /\ router.pc = "called"
  /\ LET p == Parameters(router.args)
         provider == IF RouterTakesGemini(p.customBaseUrl, p.modelName)
                     THEN "geminiService" ELSE "openaiService"
     IN router' = [router EXCEPT
                     !.pc = "returned",
                     !.invoked = Append(@, [provider |-> provider, args |-> p])]

\* --------------------------------------------------------- testApiChannel
\* baseUrl.replace(/\/$/, ''): one slash at the end is taken off.
StripTrailingSlash(s) ==
  IF s # <<>> /\ s[Len(s)] = "/" THEN SubSeq(s, 1, Len(s) - 1) ELSE s

\* lower.includes('generativelanguage.googleapis.com') ||
\* (name && name.toLowerCase().includes('gemini')): an undefined or empty
\* name is falsy.
TestTakesGemini(baseUrl, name) ==
  \/ IncludesText(ToLowerCase(baseUrl), GeminiHost)
  \/ /\ name.given
     /\ name.value # <<>>
     /\ IncludesText(ToLowerCase(name.value), GeminiWord)

\* The argument list of the one fetch call: the URL and, in the second
\* branch, the Authorization header.
TestRequest(baseUrl, key, name) ==
  IF TestTakesGemini(baseUrl, name)
  THEN [url |-> StripTrailingSlash(baseUrl) \o <<"/models", "?key=">> \o key,
        authorization |-> Undefined]
  ELSE [url |-> StripTrailingSlash(baseUrl) \o <<"/models">>,
        authorization |-> Given(<<"Bearer ">> \o key)]

\* response.ok: the status is in the range 200-299.
Ok(st) == st >= 200 /\ st <= 299

\* As TestOutcome without the test of response.ok.
TestOutcomeWithoutOkTest(st, statusText) ==
  [settled |-> "resolved", success |-> TRUE, message |-> <<"lianjie chenggong">>]

\* if (!response.ok) return { success: false, message: `HTTP ${status}:
\* ${statusText}` }; return { success: true, message: ... }
TestOutcome(st, statusText) ==
  IF ~Ok(st)
  THEN [settled |-> "resolved", success |-> FALSE,
        message |-> <<"HTTP ", ToString(st), ": ">> \o statusText]
  ELSE [settled |-> "resolved", success |-> TRUE, message |-> <<"lianjie chenggong">>]

\* The catch block: error instanceof Error ? error.message : the fixed text.
TestCatch(thrown) ==
  [settled |-> "resolved", success |-> FALSE,
   message |-> IF thrown.isError THEN thrown.message ELSE <<"weizhi cuowu">>]

TestBaseUrls ==
  {<<"https://", "generativelanguage", ".googleapis.com", "/v1beta">>,
   <<"https://", "GenerativeLanguage", ".GoogleAPIs.com", "/v1beta", "/">>,
   <<"https://", "api.openai.com", "/v1">>,
   <<"https://", "api.openai.com", "/v1", "/">>,
   <<"https://", "proxy.example", "/", "/">>}

\* name?: undefined, '', or a channel name.
TestNames ==
  {Undefined, Given(<<>>), Given(<<"My ", "Gem", "ini">>), Given(<<"OpenAI">>)}

TestKeys == {<<>>, <<"k">>}

\* response.status of the listing request.
TestStatuses == {200, 204, 304, 401, 404, 500}

\* response.statusText: a reason phrase, or empty.
TestStatusTexts == {<<>>, <<"reason phrase">>}

\* testApiChannel before a call.
TestIdle ==
  test = [pc |-> "idle", baseUrl |-> <<>>, apiKey |-> <<>>, name |-> Undefined,
          requests |-> <<>>, response |-> 0, bodyReads |-> 0,
          result |-> [settled |-> "pending", success |-> FALSE, message |-> <<>>]]

\* testApiChannel is about to be called with some arguments.
TestInit ==
  \E baseUrl \in TestBaseUrls, key \in TestKeys, name \in TestNames :
    test = [pc |-> "called", baseUrl |-> baseUrl, apiKey |-> key, name |-> name,
            requests |-> <<>>, response |-> 0, bodyReads |-> 0,
            result |-> [settled |-> "pending", success |-> FALSE, message |-> <<>>]]

\* The try block up to the await: the URL is built and fetch is called.
TestFetch ==
  /\ test.pc = "called"
  /\ test' = [test EXCEPT
               !.pc = "fetching",
               !.requests = Append(@, TestRequest(test.baseUrl, test.apiKey, test.name))]

\* await fetch(...) gives a response: the test of response.ok and the return;
\* the body of the response is not touched.
TestResponds ==
  /\ test.pc = "fetching"
  /\ \E st \in TestStatuses, statusText \in TestStatusTexts :
       test' = [test EXCEPT !.pc = "done", !.response = st,
                            !.result = TestOutcome(st, statusText)]

\* await fetch(...) rejects: the catch block.
TestFetchRejects ==
  /\ test.pc = "fetching"
  /\ \E e \in ThrownValues :
       test' = [test EXCEPT !.pc = "done", !.result = TestCatch(e)]

\* --------------------------------------------------------------- the clock
\* performance.now() before the call; no duration measured yet.
ClockIdle == clock = [now |-> 0, startTime |-> 0, snapshot |-> 0, durationMs |-> 0]

\* The time a step of the call takes: the synchronous start of the call takes
\* none, a step that ends an await (of fetch, of response.json(), of
\* reader.read()) takes one unit.
Elapses == IF pc = "idle" THEN 0 ELSE 1

\* What a step of the call does with the clock.
\*  - const startTime = performance.now() at the start of the call;
\*  - const durationMs = performance.now() - startTime of the try block, right
\*    after the response was found OK (snapshot);
\*  - return { text: fullText, durationMs } returns that snapshot;
\*  - the catch block measures performance.now() - startTime again and
\*    returns that.
Timed ==
  \E t \in {clock.now + Elapses} :
    \E start \in {IF pc = "idle" THEN t ELSE clock.startTime} :
      \E snap \in {IF pc = "fetching" /\ pc' \in {"reading", "parsing"}
                    THEN t - start ELSE clock.snapshot} :
        clock' = [now |-> t,
                  startTime |-> start,
                  snapshot |-> snap,
                  durationMs |-> IF pc' # "done" THEN clock.durationMs
                                 ELSE IF caught'.thrown THEN t - start
                                 ELSE snap]

\* ------------------------------------------------ two calls in flight
\* Two streaming calls of generateResponse whose responses were found OK:
\* each has its own response body, reader, callback and promise.
PairCalls == {1, 2}

\* The model both calls ask for.
PairModel == <<"gemini-pro">>

\* The response bodies of the two calls: the text of the first is made of
\* "a" and "w", the text of the second of "b".
PairBodies(i) ==
  IF i = 1
  THEN {<<"data:", " ", "{", "a", "}", "LF", "data:", " ", "{", "w", "}", "LF">>,
        <<"data:", " ", "{", "a", "}", "LF", "data:", " ", "[DONE]", "LF">>}
  ELSE {<<"data:", " ", "{", "b", "}", "LF", "data:", " ", "{", "b", "}", "LF">>,
        <<"data:", " ", "[DONE]", "LF", "data:", " ", "{", "b", "}", "LF">>}

\* As BufferOf with fullText a variable of the module, one for all calls.
BufferShared(i) == 1

\* let fullText = '' is a local variable of the call: each call has its own.
BufferOf(i) == i

\* No call has been made.
PairIdle ==
  pair = [pc |-> [i \in PairCalls |-> "idle"],
          wire |-> [i \in PairCalls |-> <<>>],
          fullText |-> [i \in PairCalls |-> <<>>],
          calls |-> [i \in PairCalls |-> <<>>],
          result |-> [i \in PairCalls |-> Pending]]

\* Both calls have got their readers and are about to read.
PairInit ==
  \E b1 \in PairBodies(1), b2 \in PairBodies(2) :
    pair = [pc |-> [i \in PairCalls |-> "reading"],
            wire |-> [i \in PairCalls |-> IF i = 1 THEN b1 ELSE b2],
            fullText |-> [i \in PairCalls |-> <<>>],
            calls |-> [i \in PairCalls |-> <<>>],
            result |-> [i \in PairCalls |-> Pending]]

\* await reader.read() of call i delivers a chunk: one iteration of its
\* while loop.
PairReadChunk(i) ==
  /\ pair.pc[i] = "reading"
  /\ pair.wire[i] # <<>>
  /\ \E n \in 1..Len(pair.wire[i]), cb \in CallbackBehaviours :
       \E r \in {ProcessChunk(SubSeq(pair.wire[i], 1, n), pair.fullText[BufferOf(i)],
                               pair.calls[i], cb)} :
         \E e \in IF r.stop = "throw" THEN ThrownValues ELSE {NoThrow} :
           pair' = [pair EXCEPT
                      !.wire[i] = Slice(@, n),
                      !.fullText[BufferOf(i)] = r.fullText,
                      !.calls[i] = r.calls,
                      !.pc[i] = IF r.stop = "throw" THEN "done" ELSE @,
                      !.result[i] = IF r.stop = "throw"
                                    THEN Settle(e, r.fullText, PairModel) ELSE @]

\* await reader.read() of call i returns done.
PairReadDone(i) ==
  /\ pair.pc[i] = "reading"
  /\ pair.wire[i] = <<>>
  /\ pair' = [pair EXCEPT
                !.pc[i] = "done",
                !.result[i] = Settle(EmptyCheck(pair.fullText[BufferOf(i)]),
                                     pair.fullText[BufferOf(i)], PairModel)]

\* await reader.read() of call i rejects.
PairReadRejects(i) ==
  /\ pair.pc[i] = "reading"
  /\ \E e \in ReadFailures :
       pair' = [pair EXCEPT
                  !.pc[i] = "done",
                  !.result[i] = Settle(e, pair.fullText[BufferOf(i)], PairModel)]

\* ---------------------------------------------------------- specifications

Next ==
  \/ Call /\ UNCHANGED <<clock, router, test, pair>>
  \/ FetchRejects /\ UNCHANGED <<clock, router, test, pair>>
  \/ RespondNotOk /\ UNCHANGED <<clock, router, test, pair>>
  \/ RespondOkStream /\ UNCHANGED <<clock, router, test, pair>>
  \/ RespondOkBody /\ UNCHANGED <<clock, router, test, pair>>
  \/ ParseBody /\ UNCHANGED <<clock, router, test, pair>>
  \/ ReadChunk /\ UNCHANGED <<clock, router, test, pair>>
  \/ ReadDone /\ UNCHANGED <<clock, router, test, pair>>
  \/ ReadRejects /\ UNCHANGED <<clock, router, test, pair>>

\* Before a call of generateResponse of geminiService, nothing else going on.
CallAlone == Init /\ ClockIdle /\ RouterIdle /\ TestIdle /\ PairIdle

\* One call of generateResponse of geminiService.
Spec == CallAlone /\ [][Next]_vars

RouterNext == Route /\ UNCHANGED <<vars, clock, test, pair>>

TimedNext ==
  \/ Call /\ Timed /\ UNCHANGED <<router, test, pair>>
  \/ FetchRejects /\ Timed /\ UNCHANGED <<router, test, pair>>
  \/ RespondNotOk /\ Timed /\ UNCHANGED <<router, test, pair>>
  \/ RespondOkStream /\ Timed /\ UNCHANGED <<router, test, pair>>
  \/ RespondOkBody /\ Timed /\ UNCHANGED <<router, test, pair>>
  \/ ParseBody /\ Timed /\ UNCHANGED <<router, test, pair>>
  \/ ReadChunk /\ Timed /\ UNCHANGED <<router, test, pair>>
  \/ ReadDone /\ Timed /\ UNCHANGED <<router, test, pair>>
  \/ ReadRejects /\ Timed /\ UNCHANGED <<router, test, pair>>

\* One call of generateResponse of geminiService, with the clock running.
TimedSpec == CallAlone /\ [][TimedNext]_<<vars, clock>>

TestNext ==
  \/ TestFetch /\ UNCHANGED <<vars, clock, router, pair>>
  \/ TestResponds /\ UNCHANGED <<vars, clock, router, pair>>
  \/ TestFetchRejects /\ UNCHANGED <<vars, clock, router, pair>>

\* Before a call of testApiChannel, nothing else going on.
TestAlone == Init /\ ClockIdle /\ RouterIdle /\ TestInit /\ PairIdle

\* One call of testApiChannel.
TestSpec == TestAlone /\ [][TestNext]_test

PairNext ==
  \/ \E i \in PairCalls : PairReadChunk(i) /\ UNCHANGED <<vars, clock, router, test>>
  \/ \E i \in PairCalls : PairReadDone(i) /\ UNCHANGED <<vars, clock, router, test>>
  \/ \E i \in PairCalls : PairReadRejects(i) /\ UNCHANGED <<vars, clock, router, test>>

\* Two calls in their streaming loops, nothing else going on.
PairAlone == Init /\ ClockIdle /\ RouterIdle /\ TestIdle /\ PairInit

\* Two streaming calls of generateResponse in flight at once, their reads
\* interleaved in any order.
PairSpec == PairAlone /\ [][PairNext]_pair

\* Before a call of the router, nothing else going on.
RouterAlone == Init /\ ClockIdle /\ RouterInit /\ TestIdle /\ PairIdle

\* One call of the router.
RouterSpec == RouterAlone /\ [][RouterNext]_router

\* ----------------------------------------------------------------- claims
\* The invocations of onStreamChunk with isComplete = true.
Completions == {i \in DOMAIN calls : calls[i].isComplete}

RECURSIVE ProgressFragments(_)
\* The fragments passed with isComplete = false, in invocation order.
ProgressFragments(invoked) ==
  IF invoked = <<>> THEN <<>>
  ELSE IF Head(invoked).isComplete THEN ProgressFragments(Tail(invoked))
  ELSE <<Head(invoked).newChunk>> \o ProgressFragments(Tail(invoked))

\* C1: when a streaming call's stream has ended normally (reader.read()
\* returned done, with or without a [DONE] line before it), onStreamChunk has
\* been invoked, and its last invocation is ("", final buffer, true).
C1_CompletionIsLastInvocation ==
  drained =>
    /\ calls # <<>>
    /\ calls[Len(calls)] = Invocation(<<>>, fullText, TRUE)

\* C2: onStreamChunk is invoked with isComplete = true at most once in a call.
C2_AtMostOneCompletion == Cardinality(Completions) <= 1

\* C3: once a 'data: [DONE]' line has been processed, no step of the call
\* consumes bytes of the transport, appends to the buffer, or invokes
\* onStreamChunk with isComplete = false.
C3_NothingAfterDone ==
  [][doneSeen =>
       /\ wire' = wire
       /\ fullText' = fullText
       /\ \A i \in (Len(calls) + 1)..Len(calls') : calls'[i].isComplete]_vars

\* C4: whatever chunks the transport cut the body into, the fragments passed
\* to onStreamChunk and the final buffer are those of the body delivered as
\* one chunk.
C4_ChunkingDoesNotMatter ==
  drained =>
    LET whole == ProcessChunk(body, <<>>, <<>>, "returns") IN
      /\ fullText = whole.fullText
      /\ ProgressFragments(calls) = ProgressFragments(whole.calls)

\* The call ended on a final text that is empty or white space only: the
\* stream drained, or the body parsed to an object, and fullText is blank.
EmptyFinalText ==
  /\ pc = "done"
  /\ IsBlank(fullText)
  /\ \/ drained
     \/ /\ parses = 1
        /\ ParseJSON(Decode(body)).ok
        /\ ~ParseJSON(Decode(body)).isNull

\* C5: an empty or white-space-only final text gives a result with an error
\* tag, and the tag is none of the auth, rate-limit, model-not-found and
\* network tags.
C5_EmptyTextHasItsOwnTag ==
  EmptyFinalText =>
    /\ result.settled = "resolved"
    /\ result.hasError
    /\ result.error \notin {AuthTag, RateLimitTag, ModelNotFoundTag, NetworkTag}

\* C6: for a response that is not OK the status alone decides the error tag:
\* 401 gives the auth tag, 429 the rate-limit tag, 404 the model-not-found tag.
C6_StatusDecidesTag ==
  pc = "done" =>
    /\ status = 401 => result.error = AuthTag
    /\ status = 429 => result.error = RateLimitTag
    /\ status = 404 => result.error = ModelNotFoundTag

\* C7: the call never rejects; when it has ended it has resolved to a result,
\* a result with an error tag has a text that is not empty, and a result
\* without one has a text that is not blank.
C7_AlwaysResolvesToAResult ==
  /\ result.settled \in {"pending", "resolved"}
  /\ pc = "done" =>
       /\ result.settled = "resolved"
       /\ result.hasError => result.text # <<>>
       /\ ~result.hasError => ~IsBlank(result.text)

\* A callback that threw something that is no Error, on its completion
\* invocation, ended the call in a result.
C7_Witness ==
  /\ pc = "done"
  /\ caught = NonError
  /\ Completions # {}
  /\ result.hasError

\* A line that is a data line whose payload is neither [DONE] nor valid JSON.
Malformed(line) ==
  LET trimmed == Trim(line)
      payload == Slice(trimmed, Len(DataPrefix))
  IN /\ StartsWith(trimmed, DataPrefix)
     /\ payload # <<"[DONE]">>
     /\ ~ParseJSON(payload).ok

\* Reading `chunk` with the buffer at text and the invocations at invoked
\* leaves the buffer at text2 and the invocations at invoked2, as reading it
\* without its malformed lines would, and the loop goes on (pc2) unless the
\* chunk held a [DONE] line.
ReadAsIfWithoutMalformed(chunk, text, invoked, text2, invoked2, pc2) ==
  \E asIf \in {ProcessLines(SelectSeq(Split(Decode(chunk)), LAMBDA l : ~Malformed(l)),
                            [fullText |-> text, calls |-> invoked, sawDone |-> FALSE,
                             stop |-> "continue"],
                            "returns")} :
    /\ text2 = asIf.fullText
    /\ invoked2 = asIf.calls
    /\ pc2 = "reading" \/ asIf.sawDone

\* C8: a step that reads a chunk leaves the buffer and the invocations as
\* reading the same chunk with its malformed data lines taken out would, and
\* the loop goes on reading unless the chunk held a [DONE] line whose
\* completion invocation threw.
C8_MalformedLineIsSkipped ==
  [][(pc = "reading" /\ wire' # wire) =>
       ReadAsIfWithoutMalformed(SubSeq(wire, 1, Len(wire) - Len(wire')),
                                fullText, calls, fullText', calls', pc')]_vars

\* A body of a malformed data line followed by a valid one was read to its end
\* in chunks that kept the valid line whole: its text was extracted.
C8_Witness ==
  /\ drained
  /\ body = <<"data:", " ", "{", "a", "LF", "data:", " ", "{", "w", "}", "LF">>
  /\ calls = <<Invocation(<<"w">>, <<"w">>, FALSE)>>

\* C9: when the stream drained and the buffer is not blank, the result has no
\* error tag and its text is the concatenation, in order, of the fragments
\* passed to onStreamChunk with isComplete = false.
C9_ResultIsTheFragmentsInOrder ==
  (drained /\ ~IsBlank(fullText)) =>
    /\ result.settled = "resolved"
    /\ ~result.hasError
    /\ result.text = Flatten(ProgressFragments(calls))

\* A drained stream whose result was built from two different fragments.
C9_Witness ==
  /\ drained
  /\ ~result.hasError
  /\ \E i, j \in DOMAIN calls :
       /\ ~calls[i].isComplete
       /\ ~calls[j].isComplete
       /\ calls[i].newChunk # calls[j].newChunk

\* The parts of the first candidate of a body that parsed to an object, each
\* as its text: nothing for a part without a text field.
FirstCandidateText ==
  LET candidates == ParseJSON(Decode(body)).candidates IN
  IF candidates = <<>> THEN <<>>
  ELSE SelectSeq(candidates[1], LAMBDA p : p # "_")

\* C10: a call without onStreamChunk requests generateContent and never
\* invokes a callback; once it has parsed an OK body (once) to an object,
\* fullText is the text of the parts of the first candidate in order, and
\* unless that is blank the result has no error tag and carries that text.
C10_NonStreamingText ==
  ~streaming =>
    /\ calls = <<>>
    /\ endpoint \in {"", "generateContent"}
    /\ parses <= 1
    /\ (pc = "done" /\ parses = 1 /\ ParseJSON(Decode(body)).ok
          /\ ~ParseJSON(Decode(body)).isNull) =>
         /\ fullText = FirstCandidateText
         /\ ~IsBlank(FirstCandidateText) =>
              (~result.hasError /\ result.text = FirstCandidateText)

\* A non-streaming call returned the text of a first candidate made of a
\* part without text and a part with text, and the body had a second candidate.
C10_Witness ==
  /\ ~streaming
  /\ pc = "done"
  /\ body = <<"{", "_", "a", "}", "{", "b", "}">>
  /\ ~result.hasError
  /\ result.text = <<"a">>

\* C11 as stated: the router invokes exactly one service per call, the Gemini
\* one when the lower-cased custom base URL contains the Gemini host or the
\* lower-cased model name contains 'gemini' and the OpenAI-compatible one
\* otherwise, and the eight arguments it passes are the eight it was given.
C11_RoutesAndPassesArgumentsUnchanged ==
  router.pc = "returned" =>
    /\ Len(router.invoked) = 1
    /\ router.invoked[1].provider =
         IF \/ IncludesText(ToLowerCase(OrEmpty(router.args.customBaseUrl)), GeminiHost)
            \/ IncludesText(ToLowerCase(router.args.modelName), GeminiWord)
         THEN "geminiService" ELSE "openaiService"
    /\ router.invoked[1].args = router.args

\* C11 amended: as above, but of the eight arguments an undefined
\* shouldUseReducedCapacity is passed on as false; the seven others, and a
\* given shouldUseReducedCapacity, are passed as they were given.
C11_RoutesAndPassesParameters ==
  router.pc = "returned" =>
    /\ Len(router.invoked) = 1
    /\ router.invoked[1].provider =
         IF \/ IncludesText(ToLowerCase(OrEmpty(router.args.customBaseUrl)), GeminiHost)
            \/ IncludesText(ToLowerCase(router.args.modelName), GeminiWord)
         THEN "geminiService" ELSE "openaiService"
    /\ \A k \in DOMAIN router.args \ {"shouldUseReducedCapacity"} :
         router.invoked[1].args[k] = router.args[k]
    /\ router.invoked[1].args.shouldUseReducedCapacity =
         IF router.args.shouldUseReducedCapacity.given
         THEN router.args.shouldUseReducedCapacity
         ELSE Given(<<"false">>)

\* A call without a custom base URL and with a model name that contains
\* 'gemini' in upper case only went to the Gemini service, the flag given as
\* true passed on as true.
C11_Witness ==
  /\ router.pc = "returned"
  /\ ~router.args.customBaseUrl.given
  /\ router.args.modelName = <<"GEM", "INI">>
  /\ router.args.shouldUseReducedCapacity = Given(<<"true">>)
  /\ router.invoked[1].provider = "geminiService"
  /\ router.invoked[1].args.shouldUseReducedCapacity = Given(<<"true">>)

\* C12: testApiChannel never rejects; once it has ended it has resolved to a
\* {success, message} result, with success = true exactly when the listing
\* request got a response with an OK status; a response that is not OK gives
\* a message that contains the status code, a rejected fetch gives success =
\* false; exactly one request was made, carrying the key either in a ?key=
\* query or in an Authorization: Bearer header and not in both; and no body
\* of a response is ever read.
C12_TestAlwaysResolves ==
  /\ test.result.settled \in {"pending", "resolved"}
  /\ test.bodyReads = 0
  /\ Len(test.requests) <= 1
  /\ test.pc \in {"fetching", "done"} =>
       /\ Len(test.requests) = 1
       /\ Includes(test.requests[1].url, "?key=") # test.requests[1].authorization.given
       /\ test.requests[1].authorization.given =>
            test.requests[1].authorization.value = <<"Bearer ">> \o test.apiKey
  /\ test.pc = "done" =>
       /\ test.result.settled = "resolved"
       /\ test.result.success = (test.response >= 200 /\ test.response <= 299)
       /\ (test.response # 0 /\ ~test.result.success) =>
            Includes(test.result.message, ToString(test.response))
       /\ test.response = 0 => ~test.result.success

\* A channel named after Gemini on a base URL of another host was tested
\* with the key in the query and no header, and the 401 it got is in the
\* message.
C12_Witness ==
  /\ test.pc = "done"
  /\ test.baseUrl = <<"https://", "proxy.example", "/", "/">>
  /\ test.requests = <<[url |-> <<"https://", "proxy.example", "/", "/models", "?key=", "k">>,
                         authorization |-> Undefined]>>
  /\ test.response = 401
  /\ ~test.result.success
  /\ test.result.message = <<"HTTP ", "401", ": ">>

\* C13: when a call has ended, the durationMs of its result is the time from
\* the start of the call to its end: for a streaming call that succeeded it
\* was measured after the last read and the last callback, and for a call
\* that failed it was measured at the failure.
C13_DurationIsTakenAtCompletion ==
  pc = "done" =>
    /\ (streaming /\ ~result.hasError) =>
         clock.durationMs = clock.now - clock.startTime
    /\ result.hasError => clock.durationMs = clock.now - clock.startTime

\* C14: the reader is acquired at most once and, once acquired, stays locked
\* as long as the call is in the streaming loop; every step that leaves the
\* loop (end of stream, with or without a [DONE] line before it, a rejected
\* read, a throwing completion callback) releases it; it is never released
\* twice or locked again; and no call has ended with its reader locked.
C14_ReaderReleasedOnEveryExit ==
  [][/\ reader' # reader =>
          \/ reader = "none" /\ reader' = "locked"
          \/ reader = "locked" /\ reader' = "released"
     /\ pc' = "reading" => reader' = "locked"
     /\ (pc = "reading" /\ pc' # "reading") =>
          (reader = "locked" /\ reader' = "released")
     /\ pc' = "done" => reader' # "locked"]_vars

\* A call whose stream had a [DONE] line, and whose completion callback
\* threw, ended with the reader released.
C14_Witness ==
  /\ pc = "done"
  /\ doneSeen
  /\ caught = ErrorOf(<<"boom">>)
  /\ reader = "released"

\* C15: a call whose reader.read() rejected, after any number of fragments,
\* ended in a result with an error tag; its text is the fallback message of
\* the catch block, not the text accumulated so far.
C15_ReadFailureIsAnError ==
  (pc = "done" /\ caught \in ReadFailures) =>
    /\ result.settled = "resolved"
    /\ result.hasError
    /\ result.error # <<>>
    /\ result.text = <<"yu Gemini tongxin shi chucuo: ">> \o caught.message
    /\ result.text # fullText

\* A read rejected after two fragments had been delivered.
C15_Witness ==
  /\ pc = "done"
  /\ caught \in ReadFailures
  /\ fullText = <<"a", "w">>
  /\ Len(calls) = 2
  /\ result.hasError

\* The invocations with isComplete = false among the first n.
ProgressUpTo(n) == {j \in 1..n : ~calls[j].isComplete}

\* The last of a set of positions that is not empty.
Last(S) == CHOOSE j \in S : \A k \in S : k <= j

\* C16: every invocation with isComplete = false has a fragment that is not
\* empty and a fullTextSoFar that is the fragments of the invocations with
\* isComplete = false up to and including it, in order: the fullTextSoFar
\* of the one before it followed by the fragment.  An invocation with
\* isComplete = true carries the fullTextSoFar of the invocation with
\* isComplete = false before it, and the empty text when there is none.
C16_ProgressCarriesTheFragmentsSoFar ==
  \A i \in DOMAIN calls :
    IF ~calls[i].isComplete
    THEN /\ calls[i].newChunk # <<>>
         /\ calls[i].fullText = Flatten(ProgressFragments(SubSeq(calls, 1, i)))
         /\ calls[i].fullText =
              (IF ProgressUpTo(i - 1) = {} THEN <<>>
               ELSE calls[Last(ProgressUpTo(i - 1))].fullText) \o calls[i].newChunk
    ELSE calls[i].fullText =
           IF ProgressUpTo(i) = {} THEN <<>> ELSE calls[Last(ProgressUpTo(i))].fullText

\* Two invocations with isComplete = false, the second carrying both fragments.
C16_Witness ==
  /\ Len(calls) = 2
  /\ calls[1].newChunk = <<"a">> /\ ~calls[1].isComplete
  /\ calls[2].newChunk = <<"w">> /\ ~calls[2].isComplete
  /\ calls[2].fullText = <<"a", "w">>

\* A line that after trimming does not begin with 'data: ', or a data line
\* with valid JSON whose text is empty.
Ignored(line) ==
  LET trimmed == Trim(line)
      parsed == ParseJSON(Slice(trimmed, Len(DataPrefix)))
  IN \/ ~StartsWith(trimmed, DataPrefix)
     \/ /\ parsed.ok
        /\ ~parsed.isNull
        /\ ExtractText(parsed) = <<>>

\* Reading `chunk` with the buffer at text and the invocations at invoked
\* leaves the buffer at text2 and the invocations at invoked2, as reading it
\* without its ignored lines would, and the loop goes on (pc2) unless the
\* chunk held a [DONE] line.
ReadAsIfWithoutIgnored(chunk, text, invoked, text2, invoked2, pc2) ==
  \E asIf \in {ProcessLines(SelectSeq(Split(Decode(chunk)), LAMBDA l : ~Ignored(l)),
                            [fullText |-> text, calls |-> invoked, sawDone |-> FALSE,
                             stop |-> "continue"],
                            "returns")} :
    /\ text2 = asIf.fullText
    /\ invoked2 = asIf.calls
    /\ pc2 = "reading" \/ asIf.sawDone

\* C17: a step that reads a chunk leaves the buffer and the invocations as
\* reading the same chunk without its lines that do not begin with 'data: '
\* after trimming, and without its data lines whose text is empty, would;
\* and the loop goes on reading unless the chunk held a [DONE] line whose
\* completion invocation threw.
C17_OtherLinesChangeNothing ==
  [][(pc = "reading" /\ wire' # wire) =>
       ReadAsIfWithoutIgnored(SubSeq(wire, 1, Len(wire) - Len(wire')),
                              fullText, calls, fullText', calls', pc')]_vars

\* A body of a bare 'data:' line and a data line without text was read to its
\* end: nothing was accumulated and nothing invoked.
C17_Witness ==
  /\ drained
  /\ body = <<" ", "data:", " ", "LF", "data:", " ", "{", "_", "}", "{", "b", "}", "LF">>
  /\ fullText = <<>>
  /\ calls = <<>>

\* C19: a call without an API key, or with one that is empty or only white
\* space, has made no request and invoked no callback, and it ended in a
\* result with the tag 'API key not valid' and a text that is not empty.
C19_MissingKeyIsAnAuthError ==
  (pc # "idle" /\ (~apiKey.given \/ \A i \in DOMAIN apiKey.value : apiKey.value[i] = " ")) =>
    /\ pc = "done"
    /\ requests = 0
    /\ calls = <<>>
    /\ result.settled = "resolved"
    /\ result.hasError
    /\ result.error = AuthTag
    /\ result.text # <<>>

\* A streaming call with a key of one space ended in the auth result.
C19_Witness ==
  /\ pc = "done"
  /\ streaming
  /\ apiKey = [given |-> TRUE, value |-> <<" ">>]
  /\ result.error = AuthTag

\* The text characters of the other call's stream.
ForeignText(i) == IF i = 1 THEN {"b"} ELSE {"a", "w"}

\* No text character of the other call's stream is in text.
NoForeignText(i, text) == \A k \in DOMAIN text : text[k] \notin ForeignText(i)

\* Call i went from (wire, text, invoked) to (wire2, text2, invoked2) as one
\* iteration of its loop over the bytes it consumed, starting from its own
\* buffer and invocations, would.
OwnStep(wire1, text, invoked, wire2, text2, invoked2) ==
  \E cb \in CallbackBehaviours :
    \E own \in {ProcessChunk(SubSeq(wire1, 1, Len(wire1) - Len(wire2)), text, invoked, cb)} :
      /\ text2 = own.fullText
      /\ invoked2 = own.calls

\* C18: with two streaming calls in flight and their reads interleaved in any
\* order, a step in which a call consumes nothing of its stream and does not
\* end leaves its buffer, its invocations and its result as they were; a
\* step in which it consumes bytes changes its buffer and invocations as
\* those bytes alone, read from its own buffer, would; a result without an
\* error tag carries the call's own buffer; and no text character of the other
\* call's stream is in its buffer, in a fullTextSoFar or a fragment passed to
\* its callback, or in the text of its result.
C18_CallsDoNotInterfere ==
  [][\A i \in PairCalls :
       /\ (pair'.wire[i] = pair.wire[i] /\ pair'.pc[i] = pair.pc[i]) =>
            /\ pair'.fullText[i] = pair.fullText[i]
            /\ pair'.calls[i] = pair.calls[i]
            /\ pair'.result[i] = pair.result[i]
       /\ pair'.wire[i] # pair.wire[i] =>
            OwnStep(pair.wire[i], pair.fullText[i], pair.calls[i],
                    pair'.wire[i], pair'.fullText[i], pair'.calls[i])
       /\ (pair'.pc[i] = "done" /\ ~pair'.result[i].hasError) =>
            pair'.result[i].text = pair'.fullText[i]
       /\ NoForeignText(i, pair'.fullText[i])
       /\ NoForeignText(i, pair'.result[i].text)
       /\ \A k \in DOMAIN pair'.calls[i] :
            /\ NoForeignText(i, pair'.calls[i][k].fullText)
            /\ NoForeignText(i, pair'.calls[i][k].newChunk)]_pair

\* Both calls are in the middle of their streams, each with one fragment of
\* its own accumulated and a line still to read.
C18_Witness ==
  /\ \A i \in PairCalls : pair.pc[i] = "reading" /\ pair.wire[i] # <<>>
  /\ pair.fullText[1] = <<"a">>
  /\ pair.fullText[2] = <<"b">>
  /\ pair.calls[1] = <<Invocation(<<"a">>, <<"a">>, FALSE)>>
  /\ pair.calls[2] = <<Invocation(<<"b">>, <<"b">>, FALSE)>>

====
